---------------------------- MODULE Spec2Model ----------------------------
(***************************************************************************)
(* Temporal-integrity pipeline of the UNAV admissions dataset builder:     *)
(* notebooks/utils.py (crear_target, crear_target_auditado,                *)
(* calcular_tiempos_etapas, limpiar_historial_por_hitos,                   *)
(* integrar_actividades_progresivo_por_curso) and                          *)
(* notebooks/01_limpieza_datasets.py (derived ratio, leakage guard).       *)
(*                                                                         *)
(* A pandas DataFrame is a record                                          *)
(*     [columns |-> set of column names,                                   *)
(*      datetimes |-> the columns whose dtype is datetime64,               *)
(*      rows |-> sequence of rows, each a function columns -> cell]        *)
(* A nullable cell is <<>> (NaN / NaT / None) or <<v>>.  Timestamps are    *)
(* counted in hours; text that the code lower-cases or searches is a       *)
(* sequence of one-character strings.                                      *)
(***************************************************************************)
EXTENDS Integers, Sequences, FiniteSets, TLC

VARIABLES
    pc,                      \* position of the script / of the call under study
    raised,                  \* the exception that ended the last call, or "none"
    oportunidad,             \* Opportunity table held by the caller
    historial_etapas,        \* StageHistory table held by the caller
    historial_etapas_tiempo, \* value returned by calcular_tiempos_etapas
    df_master,               \* master table the caller passes to the aggregator
    df_actividades,          \* activity table the caller passes to the aggregator
    df_joined,               \* df_joined of the aggregator after steps 3-5
    resultado,               \* value returned by the aggregator
    df_definitivo,           \* table of the Dataset Assembler (ratio, guard)
    df_pre_guard,            \* df_definitivo as it reached the leakage guard
    guard_runs,              \* number of applications of the leakage guard
    historial_enriquecido    \* value returned by limpiar_historial_por_hitos

vars == <<pc, raised, oportunidad, historial_etapas, historial_etapas_tiempo,
          df_master, df_actividades, df_joined, resultado, df_definitivo,
          df_pre_guard, guard_runs, historial_enriquecido>>

(***************************************************************************)
(* Cells and frames                                                        *)
(***************************************************************************)
NaN == <<>>

Some(v) == <<v>>

IsNa(c) == c = NaN

Val(c) == c[1]

Frame(cols, dts, rws) == [columns |-> cols, datetimes |-> dts, rows |-> rws]

EmptyFrame == Frame({}, {}, <<>>)

\* df[name] = values : every row gets the cell values[i] under `name`.
AssignColumn(df, name, values) ==
    [df EXCEPT !.columns = df.columns \cup {name},
               !.rows = [i \in 1..Len(df.rows) |->
                            [c \in df.columns \cup {name} |->
                                IF c = name THEN values[i] ELSE df.rows[i][c]]]]

\* df.drop(columns=names)
DropColumns(df, names) ==
    [df EXCEPT !.columns = df.columns \ names,
               !.datetimes = df.datetimes \ names,
               !.rows = [i \in 1..Len(df.rows) |->
                            [c \in df.columns \ names |-> df.rows[i][c]]]]

\* df[name] = pd.to_datetime(df[source]) : same instants, dtype datetime64.
AssignDatetime(df, name, source) ==
    LET withCol == AssignColumn(df, name, [i \in 1..Len(df.rows) |-> df.rows[i][source]])
    IN  [withCol EXCEPT !.datetimes = df.datetimes \cup {name}]

(***************************************************************************)
(* Target Labeler: crear_target and crear_target_auditado                  *)
(***************************************************************************)
MaxOportunidades == 2

MaxHistorial == 2

OportunidadIds == {"op1", "op2", "op3"}

HistorialIds == {"op1", "op2"}

Etapas == {"Matrícula OOGG", "Matrícula admisión"}

Subetapas == {"Formalizada", "Desmatriculado", "Pago Mínimo"}

OportunidadRows == [{"ID"} -> OportunidadIds]

EtapaRows ==
    {[c \in {"LK_Oportunidad__c", "PL_Etapa__c", "PL_Subetapa__c"} |->
        CASE c = "LK_Oportunidad__c" -> e
          [] c = "PL_Etapa__c" -> s
          [] OTHER -> u] : e \in HistorialIds, s \in Etapas, u \in Subetapas}

\* historial_etapas[...]['LK_Oportunidad__c'].unique() of the formalized enrolments
matricula_formalizada(h) ==
    {h.rows[i]["LK_Oportunidad__c"] : i \in
        {k \in 1..Len(h.rows) : /\ h.rows[k]["PL_Etapa__c"] = "Matrícula OOGG"
                                /\ h.rows[k]["PL_Subetapa__c"] = "Formalizada"}}

\* historial_etapas[...]['LK_Oportunidad__c'].unique() of the unenrolments
desmatriculado(h) ==
    {h.rows[i]["LK_Oportunidad__c"] : i \in
        {k \in 1..Len(h.rows) : h.rows[k]["PL_Subetapa__c"] = "Desmatriculado"}}

\* historial_etapas['LK_Oportunidad__c'].unique()
ids_historial(h) == {h.rows[i]["LK_Oportunidad__c"] : i \in 1..Len(h.rows)}

\* lambda x: 1 if (x in matricula_formalizada and x not in desmatriculado) else 0
TargetLambda(x, h) ==
    IF x \in matricula_formalizada(h) /\ x \notin desmatriculado(h) THEN 1 ELSE 0

\* ids_target_1 = matricula_formalizada - desmatriculado
ids_target_1(h) == matricula_formalizada(h) \ desmatriculado(h)

\* The two divisions inside the progress messages of crear_target: each
\* divides two Python ints, and raises ZeroDivisionError on a zero divisor.
CrearTargetPrintsRaise(h) ==
    \/ Cardinality(ids_historial(h)) = 0
    \/ Cardinality(matricula_formalizada(h)) = 0

TargetReady == pc = "target:start"

CrearTarget ==
    /\ TargetReady
    /\ IF CrearTargetPrintsRaise(historial_etapas)
       THEN /\ raised' = "ZeroDivisionError"
            /\ oportunidad' = oportunidad
       ELSE /\ raised' = "none"
            /\ oportunidad' =
                 AssignColumn(oportunidad, "target",
                     [i \in 1..Len(oportunidad.rows) |->
                         Some(TargetLambda(oportunidad.rows[i]["ID"], historial_etapas))])
    /\ pc' = "target:crear_target"
    /\ UNCHANGED <<historial_etapas, historial_etapas_tiempo, df_master,
                   df_actividades, df_joined, resultado, df_definitivo, df_pre_guard,
                   guard_runs, historial_enriquecido>>

CrearTargetAuditado ==
    /\ TargetReady
    /\ raised' = "none"
    /\ oportunidad' =
         AssignColumn(oportunidad, "target",
             [i \in 1..Len(oportunidad.rows) |->
                 Some(IF oportunidad.rows[i]["ID"] \in ids_target_1(historial_etapas)
                      THEN 1 ELSE 0)])
    /\ pc' = "target:crear_target_auditado"
    /\ UNCHANGED <<historial_etapas, historial_etapas_tiempo, df_master,
                   df_actividades, df_joined, resultado, df_definitivo, df_pre_guard,
                   guard_runs, historial_enriquecido>>

InitTarget ==
    /\ pc = "target:start"
    /\ raised = "none"
    /\ \E n \in 0..MaxOportunidades : \E r \in [1..n -> OportunidadRows] :
          oportunidad = Frame({"ID"}, {}, r)
    /\ \E n \in 0..MaxHistorial : \E r \in [1..n -> EtapaRows] :
          historial_etapas =
              Frame({"LK_Oportunidad__c", "PL_Etapa__c", "PL_Subetapa__c"}, {}, r)
    /\ historial_etapas_tiempo = EmptyFrame
    /\ df_master = EmptyFrame
    /\ df_actividades = EmptyFrame
    /\ df_joined = <<>>
    /\ resultado = EmptyFrame
    /\ df_definitivo = EmptyFrame
    /\ df_pre_guard = EmptyFrame
    /\ guard_runs = 0
    /\ historial_enriquecido = EmptyFrame

NextTarget == CrearTarget \/ CrearTargetAuditado

SpecTarget == InitTarget /\ [][NextTarget]_vars

\* C2 -- label exclusivity: once either labeler has been called on the two
\* tables, every opportunity row carries target = 1 exactly when the history
\* holds a 'Matrícula OOGG'/'Formalizada' event of its ID and no
\* 'Desmatriculado' event of its ID, and target = 0 otherwise (so both
\* variants give the same column).
Formalized(e) ==
    \E i \in 1..Len(historial_etapas.rows) :
        /\ historial_etapas.rows[i]["LK_Oportunidad__c"] = e
        /\ historial_etapas.rows[i]["PL_Etapa__c"] = "Matrícula OOGG"
        /\ historial_etapas.rows[i]["PL_Subetapa__c"] = "Formalizada"

Unenrolled(e) ==
    \E i \in 1..Len(historial_etapas.rows) :
        /\ historial_etapas.rows[i]["LK_Oportunidad__c"] = e
        /\ historial_etapas.rows[i]["PL_Subetapa__c"] = "Desmatriculado"

HasTarget(i, v) ==
    /\ "target" \in oportunidad.columns
    /\ oportunidad.rows[i]["target"] = Some(v)

C2_LabelExclusivity ==
    pc \in {"target:crear_target", "target:crear_target_auditado"} =>
        \A i \in 1..Len(oportunidad.rows) :
            LET e == oportunidad.rows[i]["ID"]
            IN  IF Formalized(e) /\ ~Unenrolled(e) THEN HasTarget(i, 1) ELSE HasTarget(i, 0)

\* C3 -- totality of crear_target: the call returns without raising, every
\* opportunity row gets a target in {0, 1}, and a row whose ID has no event
\* in the history gets 0 -- also when nobody was formalized or the history
\* is empty.
C3_CrearTargetTotal ==
    pc = "target:crear_target" =>
        /\ raised = "none"
        /\ \A i \in 1..Len(oportunidad.rows) :
              /\ HasTarget(i, 0) \/ HasTarget(i, 1)
              /\ oportunidad.rows[i]["ID"] \notin ids_historial(historial_etapas)
                    => HasTarget(i, 0)

\* What the labelers do establish: whenever a labeler returns, the label of
\* every row is the one C2 describes.
LabelWhenReturned ==
    (pc \in {"target:crear_target", "target:crear_target_auditado"} /\ raised = "none") =>
        \A i \in 1..Len(oportunidad.rows) :
            LET e == oportunidad.rows[i]["ID"]
            IN  IF Formalized(e) /\ ~Unenrolled(e) THEN HasTarget(i, 1) ELSE HasTarget(i, 0)

(***************************************************************************)
(* Temporal Stage Calculator: calcular_tiempos_etapas                      *)
(***************************************************************************)
MaxEventos == 2

MaxTick == 2

HoursPerDay == 24

\* Start and end instants of the events, in hours.
Times == {18 * k : k \in 0..MaxTick}

IdOrder == <<"op1", "op2", "op3">>

\* Position of an entity key in the ascending order sort_values uses.
IdRank(e) == CHOOSE k \in 1..Len(IdOrder) : IdOrder[k] = e

TiempoRows ==
    {[c \in {"LK_Oportunidad__c", "CreatedDate", "Fecha_fin_etapa__c"} |->
        CASE c = "LK_Oportunidad__c" -> e
          [] c = "CreatedDate" -> Some(t)
          [] OTHER -> f] :
        e \in HistorialIds, t \in Times, f \in {NaN} \cup {Some(u) : u \in Times}}

\* Timestamp - Timestamp : NaT when either side is NaT.
Timedelta(a, b) == IF IsNa(a) \/ IsNa(b) THEN NaN ELSE Some(Val(a) - Val(b))

\* Whole days of a timedelta rounded to the nearest day (not what .dt.days does).
DiasRedondeados(td) ==
    IF IsNa(td) THEN NaN ELSE Some((2 * Val(td) + HoursPerDay) \div (2 * HoursPerDay))

\* Series.dt.days : whole days of a timedelta, rounded towards minus infinity.
Days(td) == IF IsNa(td) THEN NaN ELSE Some(Val(td) \div HoursPerDay)

\* .fillna(0).astype(int)
FillNa0(c) == IF IsNa(c) THEN 0 ELSE Val(c)

\* Order of sort_values(by=['LK_Oportunidad__c', 'CreatedDate']): NaT last.
SortKeyLeq(r, s) ==
    \/ IdRank(r["LK_Oportunidad__c"]) < IdRank(s["LK_Oportunidad__c"])
    \/ /\ r["LK_Oportunidad__c"] = s["LK_Oportunidad__c"]
       /\ \/ IsNa(s["CreatedDate"])
          \/ /\ ~IsNa(r["CreatedDate"])
             /\ Val(r["CreatedDate"]) <= Val(s["CreatedDate"])

RECURSIVE InsertSorted(_, _)
\* r inserted after the rows of the sorted sequence that do not come after it.
InsertSorted(r, sorted) ==
    IF sorted = <<>> THEN <<r>>
    ELSE IF SortKeyLeq(sorted[1], r)
         THEN <<sorted[1]>> \o InsertSorted(r, Tail(sorted))
         ELSE <<r>> \o sorted

RECURSIVE SortValues(_)
\* Stable sort of the rows (equal keys keep their input order).
SortValues(rws) ==
    IF rws = <<>> THEN <<>>
    ELSE InsertSorted(rws[Len(rws)], SortValues(SubSeq(rws, 1, Len(rws) - 1)))

\* groupby('LK_Oportunidad__c')['CreatedDate'].shift(-1) at position p:
\* CreatedDate of the next row of the same group, NaT for the group's last row.
fecha_siguiente_sin_groupby(rws, p) ==
    IF p < Len(rws) THEN rws[p + 1]["CreatedDate"] ELSE NaN

fecha_siguiente(rws, p) ==
    LET later == {q \in (p + 1)..Len(rws) :
                     rws[q]["LK_Oportunidad__c"] = rws[p]["LK_Oportunidad__c"]}
    IN  IF later = {} THEN NaN
        ELSE rws[CHOOSE q \in later : \A o \in later : q <= o]["CreatedDate"]

\* Steps 2-4 of calcular_tiempos_etapas on the converted frame.
TiemposEtapas(h) ==
    LET ordenado == [h EXCEPT !.rows = SortValues(h.rows)]
        conEtapa == AssignColumn(ordenado, "tiempo_etapa_dias",
                        [p \in 1..Len(ordenado.rows) |->
                            FillNa0(Days(Timedelta(ordenado.rows[p]["Fecha_fin_etapa__c"],
                                                   ordenado.rows[p]["CreatedDate"])))])
    IN  AssignColumn(conEtapa, "tiempo_entre_etapas_dias",
            [p \in 1..Len(conEtapa.rows) |->
                FillNa0(Days(Timedelta(fecha_siguiente(conEtapa.rows, p),
                                       conEtapa.rows[p]["CreatedDate"])))])

\* Step 1: the two date columns of the caller's frame are replaced in place.
ConvertirFechas(h) ==
    AssignDatetime(AssignDatetime(h, "CreatedDate", "CreatedDate"),
                   "Fecha_fin_etapa__c", "Fecha_fin_etapa__c")

CalcularTiemposEtapas ==
    /\ pc = "tiempos:start"
    /\ historial_etapas' = ConvertirFechas(historial_etapas)
    /\ historial_etapas_tiempo' = TiemposEtapas(ConvertirFechas(historial_etapas))
    /\ pc' = "tiempos:done"
    /\ UNCHANGED <<raised, oportunidad, df_master, df_actividades, df_joined,
                   resultado, df_definitivo, df_pre_guard,
                   guard_runs, historial_enriquecido>>

InitTiempos ==
    /\ pc = "tiempos:start"
    /\ raised = "none"
    /\ oportunidad = EmptyFrame
    /\ \E d \in {{}, {"CreatedDate", "Fecha_fin_etapa__c"}} :
          \E n \in 0..MaxEventos : \E r \in [1..n -> TiempoRows] :
              historial_etapas =
                  Frame({"LK_Oportunidad__c", "CreatedDate", "Fecha_fin_etapa__c"}, d, r)
    /\ historial_etapas_tiempo = EmptyFrame
    /\ df_master = EmptyFrame
    /\ df_actividades = EmptyFrame
    /\ df_joined = <<>>
    /\ resultado = EmptyFrame
    /\ df_definitivo = EmptyFrame
    /\ df_pre_guard = EmptyFrame
    /\ guard_runs = 0
    /\ historial_enriquecido = EmptyFrame

NextTiempos == CalcularTiemposEtapas

SpecTiempos == InitTiempos /\ [][NextTiempos]_vars

\* C10 -- inter-stage gap: the returned events are the input events sorted by
\* (LK_Oportunidad__c, CreatedDate) ascending; an event that is not the last
\* of its entity has tiempo_entre_etapas_dias = whole days between the
\* CreatedDate of the next event of the same entity and its own, which is
\* >= 0; the last event of each entity has tiempo_entre_etapas_dias = 0, an
\* integer and never null.
SameEntity(p, q) ==
    historial_etapas_tiempo.rows[p]["LK_Oportunidad__c"] =
        historial_etapas_tiempo.rows[q]["LK_Oportunidad__c"]

Created(p) == Val(historial_etapas_tiempo.rows[p]["CreatedDate"])

Gap(p) == historial_etapas_tiempo.rows[p]["tiempo_entre_etapas_dias"]

\* Number of rows of the sequence equal to r on the given columns.
Count(rws, cols, r) ==
    Cardinality({i \in 1..Len(rws) : \A c \in cols : rws[i][c] = r[c]})

C10_InterStageGap ==
    pc = "tiempos:done" =>
        LET out == historial_etapas_tiempo.rows
            n == Len(out)
            cols == {"LK_Oportunidad__c", "CreatedDate", "Fecha_fin_etapa__c"}
        IN  /\ n = Len(historial_etapas.rows)
            /\ \A i \in 1..n :
                  Count(out, cols, historial_etapas.rows[i]) =
                      Count(historial_etapas.rows, cols, historial_etapas.rows[i])
            /\ \A p \in 1..n : \A q \in 1..n :
                  p < q =>
                      \/ IdRank(out[p]["LK_Oportunidad__c"]) < IdRank(out[q]["LK_Oportunidad__c"])
                      \/ SameEntity(p, q) /\ Created(p) <= Created(q)
            /\ \A p \in 1..n :
                  /\ Gap(p) \in Int
                  /\ IF \E q \in 1..n : q > p /\ SameEntity(p, q)
                     THEN /\ SameEntity(p, p + 1)
                          /\ Gap(p) >= 0
                          /\ Gap(p) * HoursPerDay <= Created(p + 1) - Created(p)
                          /\ Created(p + 1) - Created(p) < (Gap(p) + 1) * HoursPerDay
                     ELSE Gap(p) = 0

\* An input given latest-first: two events of one entity, the later one
\* first; in the result the earlier event comes first and is a whole day or
\* more before the next event of its entity, which is the entity's last.
C10_Witness ==
    /\ pc = "tiempos:done"
    /\ Len(historial_etapas.rows) = 2
    /\ historial_etapas.rows[1]["LK_Oportunidad__c"] = historial_etapas.rows[2]["LK_Oportunidad__c"]
    /\ Val(historial_etapas.rows[2]["CreatedDate"]) < Val(historial_etapas.rows[1]["CreatedDate"])
    /\ Gap(1) >= 1
    /\ Gap(2) = 0

\* C11 -- stage duration: for every event of the returned table
\* tiempo_etapa_dias is an integer (never null); when CreatedDate and
\* Fecha_fin_etapa__c are both present it is the number of whole days of
\* Fecha_fin_etapa__c - CreatedDate (the days component, i.e. the largest
\* integer d with d days <= the difference), and it is >= 0 when
\* end >= start; when Fecha_fin_etapa__c is missing it is 0 and the call
\* still returns.
Duracion(p) == historial_etapas_tiempo.rows[p]["tiempo_etapa_dias"]

Fin(p) == historial_etapas_tiempo.rows[p]["Fecha_fin_etapa__c"]

C11_StageDuration ==
    pc = "tiempos:done" =>
        /\ raised = "none"
        /\ Len(historial_etapas_tiempo.rows) = Len(historial_etapas.rows)
        /\ \A p \in 1..Len(historial_etapas_tiempo.rows) :
              /\ Duracion(p) \in Int
              /\ IsNa(Fin(p)) => Duracion(p) = 0
              /\ ~IsNa(Fin(p)) =>
                    /\ Duracion(p) * HoursPerDay <= Val(Fin(p)) - Created(p)
                    /\ Val(Fin(p)) - Created(p) < (Duracion(p) + 1) * HoursPerDay
                    /\ Val(Fin(p)) >= Created(p) => Duracion(p) >= 0

\* Two events in the result: one that ended a whole day or more after it
\* started, one whose end timestamp is missing and whose duration is 0.
C11_Witness ==
    /\ pc = "tiempos:done"
    /\ \E p \in 1..Len(historial_etapas_tiempo.rows) :
          ~IsNa(Fin(p)) /\ Val(Fin(p)) > Created(p) /\ Duracion(p) >= 1
    /\ \E p \in 1..Len(historial_etapas_tiempo.rows) :
          IsNa(Fin(p)) /\ Duracion(p) = 0

(***************************************************************************)
(* Progressive Activity Aggregator:                                        *)
(* integrar_actividades_progresivo_por_curso                               *)
(***************************************************************************)
MaxMaster == 2

MaxActividades == 2

MaxInstante == 2

\* Observation instants of master rows and activities.
Instantes == 0..MaxInstante

Mayusculas == <<"A", "B", "C", "D", "E", "F", "G", "H", "I", "J", "K", "L", "M",
                "N", "O", "P", "Q", "R", "S", "T", "U", "V", "W", "X", "Y", "Z">>

Minusculas == <<"a", "b", "c", "d", "e", "f", "g", "h", "i", "j", "k", "l", "m",
                "n", "o", "p", "q", "r", "s", "t", "u", "v", "w", "x", "y", "z">>

LowerChar(ch) ==
    IF \E k \in 1..Len(Mayusculas) : Mayusculas[k] = ch
    THEN Minusculas[CHOOSE k \in 1..Len(Mayusculas) : Mayusculas[k] = ch]
    ELSE ch

\* str.lower()
Lower(txt) == [k \in 1..Len(txt) |-> LowerChar(txt[k])]

RECURSIVE LStrip(_)
LStrip(txt) ==
    IF txt # <<>> /\ txt[1] = " " THEN LStrip(Tail(txt)) ELSE txt

RECURSIVE RStrip(_)
RStrip(txt) ==
    IF txt # <<>> /\ txt[Len(txt)] = " " THEN RStrip(SubSeq(txt, 1, Len(txt) - 1)) ELSE txt

\* str.strip()
Strip(txt) == RStrip(LStrip(txt))

\* re.search of a literal word in txt
Contains(txt, word) ==
    \E k \in 1..(Len(txt) - Len(word) + 1) : SubSeq(txt, k, k + Len(word) - 1) = word

keywords_excluir ==
    {<<"m", "a", "i", "l">>,
     <<"e", "m", "a", "i", "l">>,
     <<"w", "h", "a", "t", "s", "a", "p", "p">>,
     <<"m", "a", "s", "i", "v", "o">>,
     <<"c", "o", "m", "u", "n", "i", "c", "a", "c", "i", "ó", "n">>,
     <<"e", "n", "v", "í", "o">>}

\* str.contains(patron, case=False, na=False)
ContainsPatron(cell) ==
    /\ ~IsNa(cell)
    /\ LET low == Lower(Val(cell))
       IN  \E word \in keywords_excluir : Contains(low, word)

col_tipo_act == "Campaign.LK_tipoActividadPromocion__r.Name"

\* The row filter of step 1: not null, not blank, no bulk-channel keyword.
TipoActividadOk(a) ==
    /\ ~IsNa(a[col_tipo_act])
    /\ Strip(Val(a[col_tipo_act])) # <<>>
    /\ ~ContainsPatron(a[col_tipo_act])

\* Series.str.lower() : NaN stays NaN.
StrLower(cell) == IF IsNa(cell) THEN NaN ELSE Some(Lower(Val(cell)))

Asiste == <<"A", "s", "i", "s", "t", "e">>

Solicitado == <<"s", "o", "l", "i", "c", "i", "t", "a", "d", "o">>

SolicitaAsistir == <<"S", "o", "l", "i", "c", "i", "t", "a", " ", "A", "s", "i", "s", "t", "i", "r">>

Cancelado == <<"C", "a", "n", "c", "e", "l", "a", "d", "o">>

Visita == <<"V", "i", "s", "i", "t", "a">>

EMail == <<"E", "-", "M", "a", "i", "l">>

\* (type label, member status) of the activities of the model.
ActividadKinds ==
    {<<Some(Visita), st>> : st \in {Some(Asiste), Some(Solicitado), Some(SolicitaAsistir),
                                    Some(Cancelado), NaN}}
    \cup {<<tp, Some(Asiste)>> : tp \in {Some(EMail), Some(<<" ", " ">>), NaN}}

\* (contact, academic course) of the activities and of the master rows.
ActividadKeys == {<<"cA", "2024">>, <<"cA", "2025">>, <<"cB", "2024">>}

MasterKeys == {<<"cA", "2024">>, <<"cB", "2024">>}

ActividadRows ==
    {[c \in {"ContactId", "Campaign.AcademicCourse__c", "CreatedDate",
             "Estado_del_miembro__c", col_tipo_act} |->
        CASE c = "ContactId" -> k[1]
          [] c = "Campaign.AcademicCourse__c" -> k[2]
          [] c = "CreatedDate" -> Some(t)
          [] c = "Estado_del_miembro__c" -> kind[2]
          [] OTHER -> kind[1]] :
        k \in ActividadKeys, t \in Instantes, kind \in ActividadKinds}

MasterRows ==
    {[c \in {"ID18__PC", "PL_CURSO_ACADEMICO", "CreatedDate"} |->
        CASE c = "ID18__PC" -> k[1]
          [] c = "PL_CURSO_ACADEMICO" -> k[2]
          [] OTHER -> Some(t)] : k \in MasterKeys, t \in Instantes}

\* Step 1 and the preparation: df_act_clean with ActivityDate and status_lower.
ActClean(acts) ==
    LET kept == [acts EXCEPT !.rows = SelectSeq(acts.rows, TipoActividadOk)]
        dated == AssignDatetime(kept, "ActivityDate", "CreatedDate")
    IN  AssignColumn(dated, "status_lower",
            [j \in 1..Len(dated.rows) |-> StrLower(dated.rows[j]["Estado_del_miembro__c"])])

\* Step 2: the label reset_index() gives row i of the master table, whose
\* index is the RangeIndex 0..n-1 left by the merge that built it.
fila_id_por_entidad(rws, i) ==
    (CHOOSE k \in 1..i :
        /\ rws[k]["ID18__PC"] = rws[i]["ID18__PC"]
        /\ rws[k]["PL_CURSO_ACADEMICO"] = rws[i]["PL_CURSO_ACADEMICO"]
        /\ \A o \in 1..(k - 1) :
              \/ rws[o]["ID18__PC"] # rws[i]["ID18__PC"]
              \/ rws[o]["PL_CURSO_ACADEMICO"] # rws[i]["PL_CURSO_ACADEMICO"]) - 1

fila_id_unico(rws, i) == i - 1

WithFilaId(m) ==
    AssignColumn(m, "fila_id_unico", [i \in 1..Len(m.rows) |-> fila_id_unico(m.rows, i)])

\* One row of the inner merge of step 3.
JoinedRow(mr, ar) ==
    [fila_id_unico |-> mr["fila_id_unico"],
     ID18__PC |-> mr["ID18__PC"],
     MasterDate |-> mr["MasterDate"],
     PL_CURSO_ACADEMICO |-> mr["PL_CURSO_ACADEMICO"],
     ContactId |-> ar["ContactId"],
     ActivityDate |-> ar["ActivityDate"],
     status_lower |-> ar["status_lower"],
     AcademicCourse__c |-> ar["Campaign.AcademicCourse__c"]]

JoinKeysMatch(mr, ar) ==
    /\ mr["ID18__PC"] = ar["ContactId"]
    /\ mr["PL_CURSO_ACADEMICO"] = ar["Campaign.AcademicCourse__c"]

\* The activities joined to one master row, in activity order.
JoinOne(mr, arows) ==
    LET hits == SelectSeq(arows, LAMBDA ar : JoinKeysMatch(mr, ar))
    IN  [k \in 1..Len(hits) |-> JoinedRow(mr, hits[k])]

RECURSIVE MergeInner(_, _)
\* pd.merge(..., how='inner') on (ID18__PC, PL_CURSO_ACADEMICO).
MergeInner(mrows, arows) ==
    IF mrows = <<>> THEN <<>>
    ELSE JoinOne(mrows[1], arows) \o MergeInner(Tail(mrows), arows)

\* Step 4: ActivityDate < MasterDate (False when either is NaT).
FiltroTemporalLaxo(jr) ==
    /\ ~IsNa(jr.ActivityDate)
    /\ ~IsNa(jr.MasterDate)
    /\ Val(jr.ActivityDate) <= Val(jr.MasterDate)

FiltroTemporal(jr) ==
    /\ ~IsNa(jr.ActivityDate)
    /\ ~IsNa(jr.MasterDate)
    /\ Val(jr.ActivityDate) < Val(jr.MasterDate)

\* Step 5: the two indicator columns.
es_asiste(jr) == IF jr.status_lower = Some(<<"a", "s", "i", "s", "t", "e">>) THEN 1 ELSE 0

es_solicitado(jr) ==
    IF jr.status_lower \in
         {Some(<<"s", "o", "l", "i", "c", "i", "t", "a", "d", "o">>),
          Some(<<"s", "o", "l", "i", "c", "i", "t", "a", " ", "a", "s", "i", "s", "t", "i", "r">>)}
    THEN 1 ELSE 0

\* df_joined after steps 3 to 5.
Joined(m, acts) ==
    LET clean == ActClean(acts)
        pairs == SelectSeq(MergeInner(m.rows, clean.rows), FiltroTemporal)
    IN  [k \in 1..Len(pairs) |->
            [fila_id_unico |-> pairs[k].fila_id_unico,
             ID18__PC |-> pairs[k].ID18__PC,
             MasterDate |-> pairs[k].MasterDate,
             PL_CURSO_ACADEMICO |-> pairs[k].PL_CURSO_ACADEMICO,
             ContactId |-> pairs[k].ContactId,
             ActivityDate |-> pairs[k].ActivityDate,
             status_lower |-> pairs[k].status_lower,
             AcademicCourse__c |-> pairs[k].AcademicCourse__c,
             es_asiste |-> es_asiste(pairs[k]),
             es_solicitado |-> es_solicitado(pairs[k])]]

RECURSIVE SumField(_, _)
SumField(jrs, f) == IF jrs = <<>> THEN 0 ELSE jrs[1][f] + SumField(Tail(jrs), f)

RECURSIVE Ascending(_)
\* The elements of a finite set of integers, ascending.
Ascending(S) ==
    IF S = {} THEN <<>>
    ELSE LET lo == CHOOSE x \in S : \A y \in S : x <= y
         IN  <<lo>> \o Ascending(S \ {lo})

\* Step 6: groupby('fila_id_unico').agg(sum).reset_index()
Resumen(jrs) ==
    LET ids == Ascending({jrs[k].fila_id_unico : k \in 1..Len(jrs)})
    IN  [g \in 1..Len(ids) |->
            LET grp == SelectSeq(jrs, LAMBDA jr : jr.fila_id_unico = ids[g])
            IN  [fila_id_unico |-> ids[g],
                 num_asistencias_acum |-> Some(SumField(grp, "es_asiste")),
                 num_solicitudes_acum |-> Some(SumField(grp, "es_solicitado"))]]

\* The rows pd.merge(df_master, resumen, on='fila_id_unico', how='left') gives
\* for one master row: one per group with its id, or one with NaN counters.
MergeLeftOne(mr, cols, res) ==
    LET hits == SelectSeq(res, LAMBDA g : g.fila_id_unico = mr["fila_id_unico"])
        withCounts(a, s) ==
            [c \in cols \cup {"num_asistencias_acum", "num_solicitudes_acum"} |->
                CASE c = "num_asistencias_acum" -> a
                  [] c = "num_solicitudes_acum" -> s
                  [] OTHER -> mr[c]]
    IN  IF hits = <<>> THEN <<withCounts(NaN, NaN)>>
        ELSE [k \in 1..Len(hits) |->
                 withCounts(hits[k].num_asistencias_acum, hits[k].num_solicitudes_acum)]

RECURSIVE MergeLeftRows(_, _, _)
MergeLeftRows(mrows, cols, res) ==
    IF mrows = <<>> THEN <<>>
    ELSE MergeLeftOne(mrows[1], cols, res) \o MergeLeftRows(Tail(mrows), cols, res)

\* .fillna(0).astype(int) of a counter cell
FillCounterSinFillna(cell) == cell

FillCounter(cell) == IF IsNa(cell) THEN Some(0) ELSE cell

\* Step 7: left merge, counters filled with 0, helper columns dropped.
Consolidar(m, res) ==
    LET merged == MergeLeftRows(m.rows, m.columns, res)
        cols == m.columns \cup {"num_asistencias_acum", "num_solicitudes_acum"}
        filled == [k \in 1..Len(merged) |->
                      [c \in cols |->
                          IF c \in {"num_asistencias_acum", "num_solicitudes_acum"}
                          THEN FillCounter(merged[k][c]) ELSE merged[k][c]]]
    IN  DropColumns(Frame(cols, m.datetimes, filled), {"fila_id_unico", "MasterDate"})

\* The caller's master table after df_master['MasterDate'] = ... (step 1b).
ConMasterDate(m) == AssignDatetime(m, "MasterDate", "CreatedDate")

\* The value integrar_actividades_progresivo_por_curso returns.
Integrar(m, acts) ==
    LET conId == WithFilaId(ConMasterDate(m))
    IN  Consolidar(conId, Resumen(Joined(conId, acts)))

IntegrarActividades ==
    /\ pc = "actividades:start"
    /\ df_master' = ConMasterDate(df_master)
    /\ df_joined' = Joined(WithFilaId(df_master'), df_actividades)
    /\ resultado' = Consolidar(WithFilaId(df_master'), Resumen(df_joined'))
    /\ pc' = "actividades:done"
    /\ UNCHANGED <<raised, oportunidad, historial_etapas, historial_etapas_tiempo,
                   df_actividades, df_definitivo, df_pre_guard,
                   guard_runs, historial_enriquecido>>

InitActividades ==
    /\ pc = "actividades:start"
    /\ raised = "none"
    /\ oportunidad = EmptyFrame
    /\ historial_etapas = EmptyFrame
    /\ historial_etapas_tiempo = EmptyFrame
    /\ \E n \in 0..MaxMaster : \E r \in [1..n -> MasterRows] :
          df_master =
              Frame({"ID18__PC", "PL_CURSO_ACADEMICO", "CreatedDate"}, {"CreatedDate"}, r)
    /\ \E n \in 0..MaxActividades : \E r \in [1..n -> ActividadRows] :
          df_actividades =
              Frame({"ContactId", "Campaign.AcademicCourse__c", "CreatedDate",
                     "Estado_del_miembro__c", col_tipo_act}, {}, r)
    /\ df_joined = <<>>
    /\ resultado = EmptyFrame
    /\ df_definitivo = EmptyFrame
    /\ df_pre_guard = EmptyFrame
    /\ guard_runs = 0
    /\ historial_enriquecido = EmptyFrame

NextActividades == IntegrarActividades

SpecActividades == InitActividades /\ [][NextActividades]_vars

\* The master table as the caller passed it (the call adds MasterDate to it).
MasterInput == DropColumns(df_master, {"MasterDate"})

MasterTs(i) == Val(df_master.rows[i]["CreatedDate"])

Asistencias(i) == resultado.rows[i]["num_asistencias_acum"]

Solicitudes(i) == resultado.rows[i]["num_solicitudes_acum"]

\* Activity j passes the type filter, belongs to the contact and course of
\* master row i and is strictly earlier than it.
Qualifies(i, j) ==
    LET a == df_actividades.rows[j]
        m == df_master.rows[i]
    IN  /\ a["ContactId"] = m["ID18__PC"]
        /\ a["Campaign.AcademicCourse__c"] = m["PL_CURSO_ACADEMICO"]
        /\ Val(a["CreatedDate"]) < Val(m["CreatedDate"])
        /\ TipoActividadOk(a)

StatusIn(j, words) ==
    StrLower(df_actividades.rows[j]["Estado_del_miembro__c"]) \in {Some(w) : w \in words}

\* Result row i is master row i with the two counters appended.
SameMasterRow(i) ==
    \A c \in {"ID18__PC", "PL_CURSO_ACADEMICO", "CreatedDate"} :
        resultado.rows[i][c] = df_master.rows[i][c]

\* C1 -- no future leakage: every joined (master row, activity) pair that adds
\* 1 to a counter of row r has the activity's CreatedDate strictly before r's
\* CreatedDate; and the counters of r are the ones the aggregator gives when
\* every activity dated at or after r's CreatedDate is removed from the
\* activity table, so such an activity never contributes.
C1_NoFutureLeakage ==
    pc = "actividades:done" =>
        /\ \A k \in 1..Len(df_joined) :
              (df_joined[k].es_asiste = 1 \/ df_joined[k].es_solicitado = 1) =>
                  /\ df_joined[k].fila_id_unico + 1 \in 1..Len(df_master.rows)
                  /\ df_joined[k].MasterDate =
                         df_master.rows[df_joined[k].fila_id_unico + 1]["CreatedDate"]
                  /\ Val(df_joined[k].ActivityDate) < Val(df_joined[k].MasterDate)
        /\ \A i \in 1..Len(resultado.rows) :
              LET earlier == SelectSeq(df_actividades.rows,
                                 LAMBDA a : Val(a["CreatedDate"]) < MasterTs(i))
                  past == Integrar(MasterInput, [df_actividades EXCEPT !.rows = earlier])
              IN  /\ Asistencias(i) = past.rows[i]["num_asistencias_acum"]
                  /\ Solicitudes(i) = past.rows[i]["num_solicitudes_acum"]

\* A master row with two attended activities of its contact and course, one
\* earlier than the row and one dated exactly at the row's timestamp: only the
\* earlier one is counted.
C1_Witness ==
    /\ pc = "actividades:done"
    /\ Len(df_actividades.rows) = 2
    /\ \E i \in 1..Len(df_master.rows) :
          /\ Qualifies(i, 1) /\ StatusIn(1, {Lower(Asiste)})
          /\ TipoActividadOk(df_actividades.rows[2])
          /\ JoinKeysMatch(df_master.rows[i], df_actividades.rows[2])
          /\ StatusIn(2, {Lower(Asiste)})
          /\ Val(df_actividades.rows[2]["CreatedDate"]) = MasterTs(i)
          /\ Asistencias(i) = Some(1)

\* C4 -- per-row cumulative counts: result row i is master row i, its
\* num_asistencias_acum is the number of activities that pass the type filter,
\* have its contact and course, are strictly earlier and have lower-cased
\* status 'asiste', and its num_solicitudes_acum is the same count for status
\* 'solicitado' or 'solicita asistir' -- per row, also when several master
\* rows share the (ID18__PC, PL_CURSO_ACADEMICO) pair.
C4_PerRowCounts ==
    pc = "actividades:done" =>
        /\ Len(resultado.rows) = Len(df_master.rows)
        /\ \A i \in 1..Len(resultado.rows) :
              /\ SameMasterRow(i)
              /\ Asistencias(i) =
                     Some(Cardinality({j \in 1..Len(df_actividades.rows) :
                              Qualifies(i, j) /\ StatusIn(j, {Lower(Asiste)})}))
              /\ Solicitudes(i) =
                     Some(Cardinality({j \in 1..Len(df_actividades.rows) :
                              Qualifies(i, j)
                              /\ StatusIn(j, {Solicitado, Lower(SolicitaAsistir)})}))

\* Two master rows of the same contact and course observed at different
\* instants: the earlier snapshot counts one attendance, the later one two.
C4_Witness ==
    /\ pc = "actividades:done"
    /\ Len(df_master.rows) = 2
    /\ df_master.rows[1]["ID18__PC"] = df_master.rows[2]["ID18__PC"]
    /\ df_master.rows[1]["PL_CURSO_ACADEMICO"] = df_master.rows[2]["PL_CURSO_ACADEMICO"]
    /\ MasterTs(1) < MasterTs(2)
    /\ Asistencias(1) = Some(1)
    /\ Asistencias(2) = Some(2)

\* C5 -- zero-match consolidation: the call returns; the result has exactly
\* the master rows, in order, one each; both counters are non-null integers
\* >= 0 on every row and 0 on every row without a qualifying activity; the
\* helper columns fila_id_unico and MasterDate are not in the result.
C5_ZeroMatchConsolidation ==
    pc = "actividades:done" =>
        /\ raised = "none"
        /\ Len(resultado.rows) = Len(df_master.rows)
        /\ resultado.columns \cap {"fila_id_unico", "MasterDate"} = {}
        /\ {"num_asistencias_acum", "num_solicitudes_acum"} \subseteq resultado.columns
        /\ \A i \in 1..Len(resultado.rows) :
              /\ DOMAIN resultado.rows[i] = resultado.columns
              /\ SameMasterRow(i)
              /\ ~IsNa(Asistencias(i)) /\ Val(Asistencias(i)) \in Nat
              /\ ~IsNa(Solicitudes(i)) /\ Val(Solicitudes(i)) \in Nat
              /\ (\A j \in 1..Len(df_actividades.rows) : ~Qualifies(i, j)) =>
                     /\ Asistencias(i) = Some(0)
                     /\ Solicitudes(i) = Some(0)

\* Two master rows: the first matches no activity at all and gets 0 and 0,
\* the second is joined to two earlier activities (a fan-out of two) and is
\* still one row of the result.
C5_Witness ==
    /\ pc = "actividades:done"
    /\ Len(df_master.rows) = 2
    /\ Len(resultado.rows) = 2
    /\ Len(df_actividades.rows) = 2
    /\ \A j \in 1..2 : ~JoinKeysMatch(df_master.rows[1], df_actividades.rows[j])
    /\ Asistencias(1) = Some(0) /\ Solicitudes(1) = Some(0)
    /\ Qualifies(2, 1) /\ Qualifies(2, 2)
    /\ Val(Asistencias(2)) + Val(Solicitudes(2)) = 2

\* C9 -- no step mutates its input: across a call of calcular_tiempos_etapas
\* the caller's historial_etapas is unchanged, and across a call of
\* integrar_actividades_progresivo_por_curso the caller's df_master and
\* df_actividades keep their columns and cell values.
C9_NoInputMutation ==
    [][/\ (pc = "tiempos:start" /\ pc' = "tiempos:done") =>
              historial_etapas' = historial_etapas
       /\ (pc = "actividades:start" /\ pc' = "actividades:done") =>
              /\ df_master' = df_master
              /\ df_actividades' = df_actividades]_vars

(***************************************************************************)
(* Dataset Assembler, derived ratio: PORCENTAJE_PAGADO_FINAL               *)
(***************************************************************************)
MaxFilasRatio == 2

MaxPrecio == 2

\* A float is a fraction <<n, d>> in lowest terms with d >= 0; d = 0 is an
\* infinity (n = 1 or n = -1), as numpy's division by zero gives.
RECURSIVE Gcd(_, _)
Gcd(a, b) == IF b = 0 THEN a ELSE Gcd(b, a % b)

Abs(x) == IF x < 0 THEN 0 - x ELSE x

Sign(x) == IF x < 0 THEN 0 - 1 ELSE IF x = 0 THEN 0 ELSE 1

\* The float n / d, where n, d are integers: NaN for 0 / 0.
Fraction(n, d) ==
    IF d = 0 THEN (IF n = 0 THEN NaN ELSE Some(<<Sign(n), 0>>))
    ELSE LET g == Gcd(Abs(n), Abs(d))
         IN  Some(<<(Sign(d) * n) \div g, Abs(d) \div g>>)

\* Series / Series : NaN when either operand is NaN.
Dividir(a, b) == IF IsNa(a) \/ IsNa(b) THEN NaN ELSE Fraction(Val(a), Val(b))

\* Series * 100
Por100(x) == IF IsNa(x) THEN NaN ELSE Fraction(Val(x)[1] * 100, Val(x)[2])

\* df_definitivo['CU_precioOrdinario_def__c'] <= 0 (False on NaN)
BaseNegativa(cell) == ~IsNa(cell) /\ Val(cell) < 0

BaseNoPositiva(cell) == ~IsNa(cell) /\ Val(cell) <= 0

\* CU_precioAplicado_def__c / CU_precioOrdinario_def__c * 100 of one row.
Cociente(r) ==
    Por100(Dividir(r["CU_precioAplicado_def__c"], r["CU_precioOrdinario_def__c"]))

\* PORCENTAJE_PAGADO_FINAL of one row, after the .loc[base <= 0] = np.nan.
PorcentajePagadoFinal(r) ==
    IF BaseNoPositiva(r["CU_precioOrdinario_def__c"]) THEN NaN ELSE Cociente(r)

RatioRows ==
    {[c \in {"CU_precioAplicado_def__c", "CU_precioOrdinario_def__c"} |->
        IF c = "CU_precioAplicado_def__c" THEN a ELSE o] :
        a \in {NaN} \cup {Some(x) : x \in 0..MaxPrecio},
        o \in {NaN} \cup {Some(x) : x \in (0 - MaxPrecio)..MaxPrecio}}

CalcularPorcentaje ==
    /\ pc = "ratio:start"
    /\ df_definitivo' =
         AssignColumn(df_definitivo, "PORCENTAJE_PAGADO_FINAL",
             [i \in 1..Len(df_definitivo.rows) |-> PorcentajePagadoFinal(df_definitivo.rows[i])])
    /\ pc' = "ratio:done"
    /\ UNCHANGED <<raised, oportunidad, historial_etapas, historial_etapas_tiempo,
                   df_master, df_actividades, df_joined, resultado, df_pre_guard,
                   guard_runs, historial_enriquecido>>

InitRatio ==
    /\ pc = "ratio:start"
    /\ raised = "none"
    /\ oportunidad = EmptyFrame
    /\ historial_etapas = EmptyFrame
    /\ historial_etapas_tiempo = EmptyFrame
    /\ df_master = EmptyFrame
    /\ df_actividades = EmptyFrame
    /\ df_joined = <<>>
    /\ resultado = EmptyFrame
    /\ \E n \in 0..MaxFilasRatio : \E r \in [1..n -> RatioRows] :
          df_definitivo =
              Frame({"CU_precioAplicado_def__c", "CU_precioOrdinario_def__c"}, {}, r)
    /\ df_pre_guard = EmptyFrame
    /\ guard_runs = 0
    /\ historial_enriquecido = EmptyFrame

NextRatio == CalcularPorcentaje

SpecRatio == InitRatio /\ [][NextRatio]_vars

\* C8 -- ratio safety: after the ratio step, a row with
\* CU_precioOrdinario_def__c <= 0 has PORCENTAJE_PAGADO_FINAL null; a row with
\* CU_precioOrdinario_def__c > 0 has PORCENTAJE_PAGADO_FINAL equal to
\* CU_precioAplicado_def__c / CU_precioOrdinario_def__c * 100 (null when the
\* applied price is null); no value is infinite and the step does not raise.
C8_RatioSafety ==
    pc = "ratio:done" =>
        /\ raised = "none"
        /\ \A i \in 1..Len(df_definitivo.rows) :
              LET a == df_definitivo.rows[i]["CU_precioAplicado_def__c"]
                  o == df_definitivo.rows[i]["CU_precioOrdinario_def__c"]
                  p == df_definitivo.rows[i]["PORCENTAJE_PAGADO_FINAL"]
              IN  /\ (~IsNa(o) /\ Val(o) <= 0) => IsNa(p)
                  /\ ~IsNa(p) => Val(p)[2] > 0
                  /\ (~IsNa(o) /\ Val(o) > 0) =>
                        IF IsNa(a) THEN IsNa(p)
                        ELSE /\ ~IsNa(p)
                             /\ Val(p)[1] * Val(o) = Val(a) * 100 * Val(p)[2]

\* A row with base 0 and a non-null applied price (the quotient is infinite
\* before the guard) next to a row with base 2 and applied price 1 (50 %).
C8_Witness ==
    /\ pc = "ratio:done"
    /\ Len(df_definitivo.rows) = 2
    /\ df_definitivo.rows[1]["CU_precioOrdinario_def__c"] = Some(0)
    /\ df_definitivo.rows[1]["CU_precioAplicado_def__c"] = Some(1)
    /\ IsNa(df_definitivo.rows[1]["PORCENTAJE_PAGADO_FINAL"])
    /\ df_definitivo.rows[2]["CU_precioOrdinario_def__c"] = Some(2)
    /\ df_definitivo.rows[2]["CU_precioAplicado_def__c"] = Some(1)
    /\ df_definitivo.rows[2]["PORCENTAJE_PAGADO_FINAL"] = Some(<<50, 1>>)

(***************************************************************************)
(* Dataset Assembler, leakage guard: mask_futuro                           *)
(***************************************************************************)
MaxFilasGuard == 2

MaxGuardRuns == 2

etapas_pago == {"Solicitud", "Pruebas", "Admisión académica"}

vars_pago_config ==
    <<"PAID_AMOUNT", "MINIMUMPAYMENTPAYED", "CU_precioAplicado_def__c",
      "PORCENTAJE_PAGADO_FINAL">>

\* vars_pago = [v for v in vars_pago if v in df_definitivo.columns]
vars_pago(df) ==
    {vars_pago_config[k] : k \in {x \in 1..Len(vars_pago_config) :
                                     vars_pago_config[x] \in df.columns}}

\* Stages of the rows: the three early stages and a later one.
EtapasGuard == etapas_pago \cup {"Matrícula OOGG"}

\* Columns that eliminar_columnas_na may have dropped from oportunidad.
ColumnasOpcionales == {"PAID_AMOUNT", "MINIMUMPAYMENTPAYED"}

GuardColumns(dropped) ==
    ({"PL_Etapa__c"} \cup {vars_pago_config[k] : k \in 1..Len(vars_pago_config)}) \ dropped

GuardRows(cols) ==
    {[c \in cols |-> IF c = "PL_Etapa__c" THEN e ELSE pagos[c]] :
        e \in EtapasGuard, pagos \in [cols \ {"PL_Etapa__c"} -> {NaN, Some(1)}]}

\* mask_futuro of one row
mask_futuro_all(df, r) ==
    /\ r["PL_Etapa__c"] \in etapas_pago
    /\ \A v \in vars_pago(df) : ~IsNa(r[v])

mask_futuro(df, r) ==
    /\ r["PL_Etapa__c"] \in etapas_pago
    /\ \E v \in vars_pago(df) : ~IsNa(r[v])

\* df_definitivo.loc[mask_futuro, vars_pago] = np.nan, on one row
RedactarPrimero(df, r) ==
    LET live == {k \in 1..Len(vars_pago_config) :
                    /\ vars_pago_config[k] \in df.columns
                    /\ ~IsNa(r[vars_pago_config[k]])}
        first == CHOOSE k \in live : \A o \in live : k <= o
    IN  [c \in df.columns |-> IF c = vars_pago_config[first] THEN NaN ELSE r[c]]

Redactar(df, r) == [c \in df.columns |-> IF c \in vars_pago(df) THEN NaN ELSE r[c]]

Guard(df) ==
    [df EXCEPT !.rows = [i \in 1..Len(df.rows) |->
                            IF mask_futuro(df, df.rows[i])
                            THEN Redactar(df, df.rows[i]) ELSE df.rows[i]]]

LeakageGuard ==
    /\ pc = "guard"
    /\ guard_runs < MaxGuardRuns
    /\ df_definitivo' = Guard(df_definitivo)
    /\ guard_runs' = guard_runs + 1
    /\ UNCHANGED <<pc, raised, oportunidad, historial_etapas, historial_etapas_tiempo,
                   df_master, df_actividades, df_joined, resultado, df_pre_guard,
                   historial_enriquecido>>

InitGuard ==
    /\ pc = "guard"
    /\ raised = "none"
    /\ oportunidad = EmptyFrame
    /\ historial_etapas = EmptyFrame
    /\ historial_etapas_tiempo = EmptyFrame
    /\ df_master = EmptyFrame
    /\ df_actividades = EmptyFrame
    /\ df_joined = <<>>
    /\ resultado = EmptyFrame
    /\ \E d \in {{}, ColumnasOpcionales} :
          \E n \in 0..MaxFilasGuard : \E r \in [1..n -> GuardRows(GuardColumns(d))] :
              df_definitivo = Frame(GuardColumns(d), {}, r)
    /\ df_pre_guard = df_definitivo
    /\ guard_runs = 0
    /\ historial_enriquecido = EmptyFrame

NextGuard == LeakageGuard

SpecGuard == InitGuard /\ [][NextGuard]_vars

\* C6 -- leakage guard postcondition: once the guard has run, every row whose
\* PL_Etapa__c is 'Solicitud', 'Pruebas' or 'Admisión académica' has every
\* configured payment field (PAID_AMOUNT, MINIMUMPAYMENTPAYED,
\* CU_precioAplicado_def__c, PORCENTAJE_PAGADO_FINAL) of the table null.
C6_GuardPostcondition ==
    guard_runs >= 1 =>
        \A i \in 1..Len(df_definitivo.rows) :
            df_definitivo.rows[i]["PL_Etapa__c"] \in {"Solicitud", "Pruebas", "Admisión académica"} =>
                \A v \in {"PAID_AMOUNT", "MINIMUMPAYMENTPAYED", "CU_precioAplicado_def__c",
                          "PORCENTAJE_PAGADO_FINAL"} \cap df_definitivo.columns :
                    IsNa(df_definitivo.rows[i][v])

\* Scenario E: a row at 'Solicitud' arrived with PAID_AMOUNT non-null (and
\* another payment field null); after one run of the guard PAID_AMOUNT is null.
C6_Witness ==
    /\ guard_runs = 1
    /\ \E i \in 1..Len(df_definitivo.rows) :
          /\ df_pre_guard.rows[i]["PL_Etapa__c"] = "Solicitud"
          /\ "PAID_AMOUNT" \in df_pre_guard.columns
          /\ ~IsNa(df_pre_guard.rows[i]["PAID_AMOUNT"])
          /\ IsNa(df_pre_guard.rows[i]["PORCENTAJE_PAGADO_FINAL"])
          /\ IsNa(df_definitivo.rows[i]["PAID_AMOUNT"])

\* C7 -- idempotent redaction: a run of the leakage guard on a table the guard
\* has already processed leaves the table as it is.
C7_IdempotentRedaction ==
    [][(guard_runs >= 1 /\ guard_runs' = guard_runs + 1) =>
           df_definitivo' = df_definitivo]_vars

\* The guard has run twice on a table in which the first run redacted a row
\* that had two non-null payment fields.
C7_Witness ==
    /\ guard_runs = 2
    /\ \E i \in 1..Len(df_definitivo.rows) :
          /\ df_pre_guard.rows[i]["PL_Etapa__c"] \in etapas_pago
          /\ ~IsNa(df_pre_guard.rows[i]["CU_precioAplicado_def__c"])
          /\ ~IsNa(df_pre_guard.rows[i]["PORCENTAJE_PAGADO_FINAL"])
          /\ IsNa(df_definitivo.rows[i]["CU_precioAplicado_def__c"])
          /\ IsNa(df_definitivo.rows[i]["PORCENTAJE_PAGADO_FINAL"])

(***************************************************************************)
(* Milestone-based redaction: limpiar_historial_por_hitos                  *)
(***************************************************************************)
MaxEventosHito == 2

MaxPrincipal == 1

MaxInstanteHito == 1

InstantesHito == 0..MaxInstanteHito

cols_academicas ==
    {"NU_NOTA_MEDIA_ADMISION", "CH_PRUEBAS_CALIFICADAS",
     "NU_RESULTADO_ADMISION_PUNTOS", "PL_RESOLUCION_DEFINITIVA"}

cols_economicas ==
    {"MINIMUMPAYMENTPAYED", "PAID_AMOUNT", "PAID_PERCENT", "CH_PAGO_SUPERIOR",
     "CH_MATRICULA_SUJETA_BECA", "CH_AYUDA_FINANCIACION", "CU_IMPORTE_TOTAL"}

\* (PL_Etapa__c, PL_Subetapa__c) of the events: the academic milestone, the
\* economic milestone, and two pairs that share only one half with a milestone.
EtapasHito ==
    {<<"Pruebas de admisión", "Pruebas calificadas">>,
     <<"Matrícula admisión", "Pago Mínimo">>,
     <<"Pruebas de admisión", "Pago Mínimo">>}

HitoColumns == {"LK_Oportunidad__c", "PL_Etapa__c", "PL_Subetapa__c", "CreatedDate"}

HitoRows ==
    {[c \in HitoColumns |->
        CASE c = "LK_Oportunidad__c" -> e
          [] c = "PL_Etapa__c" -> k[1]
          [] c = "PL_Subetapa__c" -> k[2]
          [] OTHER -> Some(t)] :
        e \in HistorialIds, k \in EtapasHito, t \in InstantesHito}

\* The academic and economic columns of df_principal that hold a value.
ColumnasLlenas ==
    {{}, cols_academicas, cols_economicas,
     {"CH_PRUEBAS_CALIFICADAS", "PAID_PERCENT"},
     cols_academicas \cup cols_economicas}

PrincipalColumns == {"ID"} \cup cols_academicas \cup cols_economicas

PrincipalRows ==
    {[c \in PrincipalColumns |->
        IF c = "ID" THEN e ELSE IF c \in llenas THEN Some(1) ELSE NaN] :
        e \in HistorialIds, llenas \in ColumnasLlenas}

\* Earliest CreatedDate over all events of the given stage and sub-stage,
\* whatever their entity.
HitoSinGroupby(h, etapa, subetapa, e) ==
    LET fechas == {Val(h.rows[i]["CreatedDate"]) :
                      i \in {j \in 1..Len(h.rows) :
                                /\ h.rows[j]["PL_Etapa__c"] = etapa
                                /\ h.rows[j]["PL_Subetapa__c"] = subetapa}}
    IN  IF fechas = {} THEN NaN
        ELSE Some(CHOOSE t \in fechas : \A u \in fechas : t <= u)

\* df[(etapa) & (subetapa)].groupby('LK_Oportunidad__c')['CreatedDate'].min()
\* looked up for entity e by the left merge: NaT when e has no such event.
Hito(h, etapa, subetapa, e) ==
    LET fechas == {Val(h.rows[i]["CreatedDate"]) :
                      i \in {j \in 1..Len(h.rows) :
                                /\ h.rows[j]["LK_Oportunidad__c"] = e
                                /\ h.rows[j]["PL_Etapa__c"] = etapa
                                /\ h.rows[j]["PL_Subetapa__c"] = subetapa}}
    IN  IF fechas = {} THEN NaN
        ELSE Some(CHOOSE t \in fechas : \A u \in fechas : t <= u)

hito_acad(h, e) == Hito(h, "Pruebas de admisión", "Pruebas calificadas", e)

hito_econ(h, e) == Hito(h, "Matrícula admisión", "Pago Mínimo", e)

\* Step 4: the two left merges that attach each event's own milestone dates.
df_merge(h) ==
    AssignColumn(
        AssignColumn(h, "fecha_pruebas_calificadas",
            [i \in 1..Len(h.rows) |-> hito_acad(h, h.rows[i]["LK_Oportunidad__c"])]),
        "fecha_matricula_iniciada",
        [i \in 1..Len(h.rows) |-> hito_econ(h, h.rows[i]["LK_Oportunidad__c"])])

RECURSIVE PrincipalMatches(_, _, _)
\* One row of the left merge per row of df_principal whose ID is the event's
\* LK_Oportunidad__c, in the order of df_principal.
PrincipalMatches(mr, cols, prows) ==
    IF prows = <<>> THEN <<>>
    ELSE (IF prows[1]["ID"] = mr["LK_Oportunidad__c"]
          THEN <<[c \in cols |-> IF c \in DOMAIN mr THEN mr[c] ELSE prows[1][c]]>>
          ELSE <<>>)
         \o PrincipalMatches(mr, cols, Tail(prows))

RECURSIVE MergePrincipalRows(_, _, _)
\* how='left': an event without a row in df_principal keeps one row, with
\* the columns of df_principal null.
MergePrincipalRows(mrows, cols, prows) ==
    IF mrows = <<>> THEN <<>>
    ELSE LET matches == PrincipalMatches(mrows[1], cols, prows)
         IN  (IF matches = <<>>
              THEN <<[c \in cols |-> IF c \in DOMAIN mrows[1] THEN mrows[1][c] ELSE NaN]>>
              ELSE matches)
             \o MergePrincipalRows(Tail(mrows), cols, prows)

\* Step 5: pd.merge(df_merge, df_principal, left_on='LK_Oportunidad__c',
\* right_on='ID', how='left')
MergePrincipal(m, principal) ==
    Frame(m.columns \cup principal.columns, m.datetimes,
          MergePrincipalRows(m.rows, m.columns \cup principal.columns, principal.rows))

\* A mask that only tests whether the milestone exists.
MaskSoloIsna(r, fecha) == IsNa(r[fecha])

\* (df_final[fecha].isna()) | (df_final['CreatedDate'] < df_final[fecha])
MaskHito(r, fecha) ==
    \/ IsNa(r[fecha])
    \/ (~IsNa(r["CreatedDate"]) /\ Val(r["CreatedDate"]) < Val(r[fecha]))

mask_acad(r) == MaskHito(r, "fecha_pruebas_calificadas")

mask_econ(r) == MaskHito(r, "fecha_matricula_iniciada")

\* df_final.loc[mask, cols] = np.nan for both groups of columns.
AplicarMascaras(df) ==
    [df EXCEPT !.rows =
        [i \in 1..Len(df.rows) |->
            [c \in df.columns |->
                IF \/ (c \in cols_academicas /\ mask_acad(df.rows[i]))
                   \/ (c \in cols_economicas /\ mask_econ(df.rows[i]))
                THEN NaN ELSE df.rows[i][c]]]]

LimpiarHistorial(h, principal) ==
    AplicarMascaras(MergePrincipal(df_merge(h), principal))

LimpiarHistorialPorHitos ==
    /\ pc = "hitos:start"
    /\ historial_etapas' = AssignDatetime(historial_etapas, "CreatedDate", "CreatedDate")
    /\ historial_enriquecido' = LimpiarHistorial(historial_etapas', oportunidad)
    /\ pc' = "hitos:done"
    /\ UNCHANGED <<raised, oportunidad, historial_etapas_tiempo, df_master,
                   df_actividades, df_joined, resultado, df_definitivo, df_pre_guard,
                   guard_runs>>

InitHitos ==
    /\ pc = "hitos:start"
    /\ raised = "none"
    /\ \E n \in 0..MaxPrincipal : \E r \in [1..n -> PrincipalRows] :
          oportunidad = Frame(PrincipalColumns, {}, r)
    /\ \E n \in 0..MaxEventosHito : \E r \in [1..n -> HitoRows] :
          historial_etapas = Frame(HitoColumns, {}, r)
    /\ historial_etapas_tiempo = EmptyFrame
    /\ df_master = EmptyFrame
    /\ df_actividades = EmptyFrame
    /\ df_joined = <<>>
    /\ resultado = EmptyFrame
    /\ df_definitivo = EmptyFrame
    /\ df_pre_guard = EmptyFrame
    /\ guard_runs = 0
    /\ historial_enriquecido = EmptyFrame

NextHitos == LimpiarHistorialPorHitos

SpecHitos == InitHitos /\ [][NextHitos]_vars

\* C12 -- milestone-based redaction: in the returned table every row with a
\* non-null academic field belongs to an entity that has a 'Pruebas de
\* admisión' / 'Pruebas calificadas' event and has CreatedDate >= the
\* earliest such event of that entity; every row with a non-null economic
\* field belongs to an entity that has a 'Matrícula admisión' / 'Pago Mínimo'
\* event and has CreatedDate >= the earliest such event; rows before the
\* milestone, and rows of entities whose milestone never occurred, have the
\* whole field group null.
EventosHito(e, etapa, subetapa) ==
    {i \in 1..Len(historial_etapas.rows) :
        /\ historial_etapas.rows[i]["LK_Oportunidad__c"] = e
        /\ historial_etapas.rows[i]["PL_Etapa__c"] = etapa
        /\ historial_etapas.rows[i]["PL_Subetapa__c"] = subetapa}

\* The entity of row r has the milestone and r is not before its earliest
\* occurrence.
AlcanzaHito(r, etapa, subetapa) ==
    LET hitos == EventosHito(r["LK_Oportunidad__c"], etapa, subetapa)
    IN  /\ hitos # {}
        /\ \E i \in hitos :
              /\ \A j \in hitos : Val(historial_etapas.rows[i]["CreatedDate"]) <=
                                      Val(historial_etapas.rows[j]["CreatedDate"])
              /\ Val(r["CreatedDate"]) >= Val(historial_etapas.rows[i]["CreatedDate"])

C12_MilestoneRedaction ==
    pc = "hitos:done" =>
        \A p \in 1..Len(historial_enriquecido.rows) :
            LET r == historial_enriquecido.rows[p]
                acad == AlcanzaHito(r, "Pruebas de admisión", "Pruebas calificadas")
                econ == AlcanzaHito(r, "Matrícula admisión", "Pago Mínimo")
            IN  /\ (\E c \in cols_academicas : ~IsNa(r[c])) => acad
                /\ (\E c \in cols_economicas : ~IsNa(r[c])) => econ
                /\ ~acad => \A c \in cols_academicas : IsNa(r[c])
                /\ ~econ => \A c \in cols_economicas : IsNa(r[c])

\* An entity whose record holds every academic and economic field, with an
\* event before its academic milestone and the milestone event itself, and no
\* economic milestone: the earlier row has the academic group null, the
\* milestone row keeps it, and both rows have the economic group null.
C12_Witness ==
    /\ pc = "hitos:done"
    /\ Len(historial_enriquecido.rows) = 2
    /\ Len(oportunidad.rows) = 1
    /\ \A c \in cols_academicas \cup cols_economicas : ~IsNa(oportunidad.rows[1][c])
    /\ \E p, q \in 1..2 :
          LET r == historial_enriquecido.rows[p]
              m == historial_enriquecido.rows[q]
          IN  /\ r["LK_Oportunidad__c"] = m["LK_Oportunidad__c"]
              /\ m["PL_Etapa__c"] = "Pruebas de admisión"
              /\ m["PL_Subetapa__c"] = "Pruebas calificadas"
              /\ Val(r["CreatedDate"]) < Val(m["CreatedDate"])
              /\ \A c \in cols_academicas : IsNa(r[c]) /\ ~IsNa(m[c])
              /\ \A c \in cols_economicas : IsNa(r[c]) /\ IsNa(m[c])

=============================================================================
